---- MODULE Spec2Model ----
(***************************************************************************)
(* Task Manager API (restapipythonNew.py): an HTTP handler with one method *)
(* per verb over the module-level dict `tasks`.  A step of the model is    *)
(* one request handled to completion by TaskAPIHandler, as the single      *)
(* threaded socketserver.TCPServer runs them.                              *)
(*                                                                         *)
(* Python values are modelled as records [type, dict, list, str]; a task   *)
(* is a function from its keys to its values; every field value is a       *)
(* string, and Python's None is the reserved string None below, which no   *)
(* request body of the model uses as a JSON string.                        *)
(***************************************************************************)
EXTENDS Integers, Sequences, FiniteSets, TLC

VARIABLES
    tasks,    \* the dict `tasks`: task id -> task dict
    order,    \* insertion order of the keys of `tasks` (dicts keep it)
    issued,   \* the values uuid.uuid4() has returned so far
    req,      \* the request of the current handler object, NoRequest between requests
    resp,     \* the responses written to the connection for `req`, in order
    raised,   \* the exception that escaped the handler for `req`, or "none"
    nreq      \* number of requests handled so far

vars == <<tasks, order, issued, req, resp, raised, nreq>>

---------------------------------------------------------------------------
(* Bounds of the model *)

\* requests handled in one behaviour
MaxRequests == 2

\* size of the pool uuid.uuid4() draws from
NumUuids == 2

---------------------------------------------------------------------------
(* Python values *)

None == "<None>"

EmptyDict == [k \in {} |-> None]

PyDict(d) == [type |-> "dict", dict |-> d, list |-> <<>>, str |-> ""]
PyList(l) == [type |-> "list", dict |-> EmptyDict, list |-> l, str |-> ""]
PyStr(s) == [type |-> "str", dict |-> EmptyDict, list |-> <<>>, str |-> s]
PyInt == [type |-> "int", dict |-> EmptyDict, list |-> <<>>, str |-> ""]
PyNone == [type |-> "NoneType", dict |-> EmptyDict, list |-> <<>>, str |-> ""]

\* Python's substring test `sub in s` on strings
Contains(s, sub) ==
    \E i \in 1..(Len(s) - Len(sub) + 1) : SubSeq(s, i, i + Len(sub) - 1) = sub

\* `key in data`: raises TypeError for an int, which is not iterable
InRaises(data) == data.type = "int"

In(key, data) ==
    CASE data.type = "dict" -> key \in DOMAIN data.dict
      [] data.type = "list" -> \E i \in 1..Len(data.list) : data.list[i] = key
      [] data.type = "str" -> Contains(data.str, key)
      [] OTHER -> FALSE

\* dict.get(key, default)
Get(d, key, default) == IF key \in DOMAIN d THEN d[key] ELSE default

---------------------------------------------------------------------------
(* The store at import time *)

SeedIds == {"task123", "task456"}

SeedTasks ==
    [id \in SeedIds |->
        IF id = "task123"
        THEN [title |-> "Buy groceries",
              description |-> "Milk, bread, eggs, vegetables",
              status |-> "pending",
              dueDate |-> "2025-06-20"]
        ELSE [title |-> "Finish report",
              description |-> "Complete Q2 financial report",
              status |-> "in-progress",
              dueDate |-> "2025-06-25"]]

SeedOrder == <<"task123", "task456">>

\* uuid.uuid4(): a random 122-bit token, rendered as a 36-character string;
\* it is modelled as never returning the same value twice.
UUIDs == {"uuid4-" \o ToString(i) : i \in 1..NumUuids}

Uuid4(used) == UUIDs \ used

---------------------------------------------------------------------------
(* Requests *)

\* self.path.split('/') for the request paths of the model:
\* "/", "/tasks", "/tasks/<id>", "/tasks/", "/foo/task123" and "/foo/bar/baz"
RootPath == <<"", "">>
TasksPath == <<"", "tasks">>
TaskPath(id) == <<"", "tasks", id>>
TrailingPath == <<"", "tasks", "">>
FooPath == <<"", "foo", "task123">>
OtherPath == <<"", "foo", "bar", "baz">>

PathIds == SeedIds \cup UUIDs

Paths == {RootPath, TasksPath, TrailingPath, FooPath, OtherPath} \cup {TaskPath(id) : id \in PathIds}

\* [part for part in self.path.split('/') if part]
PathParts(path) == SelectSeq(path, LAMBDA part : part # "")

\* request bodies: Content-Length 0, bytes that are not UTF-8, text that is
\* not JSON, or a JSON text with the value json.loads gives for it
EmptyBody == [kind |-> "empty", value |-> PyNone]
BadUtf8Body == [kind |-> "badutf8", value |-> PyNone]
MalformedBody == [kind |-> "malformed", value |-> PyNone]
JsonBody(v) == [kind |-> "json", value |-> v]

Obj1(k1, v1) == [k \in {k1} |-> v1]

CoreFields == [title |-> "A", description |-> "B", status |-> "C"]

ObjectBodies ==
    { JsonBody(PyDict(d)) : d \in
        { EmptyDict,
          Obj1("title", "X"),
          Obj1("status", "done"),
          Obj1("nonexistentField", "z"),
          Obj1("id", "task456"),
          Obj1("id", ""),
          CoreFields,
          [description |-> "B", status |-> "C"],
          [title |-> "A", description |-> "B", status |-> "C", dueDate |-> "D"],
          [title |-> "A", description |-> "B", status |-> "C", id |-> "other"] } }

NonObjectBodies ==
    { JsonBody(PyNone),
      JsonBody(PyInt),
      JsonBody(PyStr("x")),
      JsonBody(PyStr("title description status")),
      JsonBody(PyList(<<>>)),
      JsonBody(PyList(<<"title", "description", "status">>)) }

Bodies == {EmptyBody, BadUtf8Body, MalformedBody} \cup ObjectBodies \cup NonObjectBodies

\* one body for each outcome of reading and validating a body
FairBodies ==
    { EmptyBody, BadUtf8Body, MalformedBody,
      JsonBody(PyNone),
      JsonBody(PyInt),
      JsonBody(PyStr("title description status")),
      JsonBody(PyDict(Obj1("title", "X"))),
      JsonBody(PyDict(CoreFields)) }

\* bodies sent with the verbs whose handlers never read the body
UnreadBodies == {EmptyBody, MalformedBody, JsonBody(PyDict(CoreFields))}

NoRequest == [method |-> "none", path |-> <<>>, body |-> EmptyBody]

---------------------------------------------------------------------------
(* Responses: _set_headers(status) followed by the body written to wfile *)

ErrorResponse(status_code, message) ==
    [status |-> status_code, kind |-> "error", error |-> message, body |-> <<>>]

TaskResponse(status_code, task) ==
    [status |-> status_code, kind |-> "task", error |-> "", body |-> <<task>>]

ListResponse(list) ==
    [status |-> 200, kind |-> "list", error |-> "", body |-> list]

\* _set_headers(204) with nothing written after it
NoContent == [status |-> 204, kind |-> "empty", error |-> "", body |-> <<>>]

InvalidJson == ErrorResponse(400, "Invalid JSON")

TitleRequired == ErrorResponse(400, "Title is required")

AllFieldsRequired ==
    ErrorResponse(400, "All fields (title, description, status) are required for PUT")

TaskNotFound == ErrorResponse(404, "Task not found")

NotFound == ErrorResponse(404, "Not Found")

\* send_error(501) of the base class BaseHTTPRequestHandler: an HTML page
UnsupportedMethod ==
    [status |-> 501, kind |-> "html", error |-> "Unsupported method", body |-> <<>>]

---------------------------------------------------------------------------
(* Helpers of the handlers *)

\* _read_request_body: the value returned, the response it wrote itself and
\* the exception it let through.  json.JSONDecodeError is the only exception
\* caught; bytes that are not UTF-8 raise UnicodeDecodeError from decode().
ReadRequestBody(body) ==
    CASE body.kind = "empty" ->
            [data |-> PyDict(EmptyDict), resp |-> <<>>, raised |-> "none"]
      [] body.kind = "badutf8" ->
            [data |-> PyNone, resp |-> <<>>, raised |-> "UnicodeDecodeError"]
      [] body.kind = "malformed" ->
            [data |-> PyNone, resp |-> <<InvalidJson>>, raised |-> "none"]
      [] OTHER ->
            [data |-> body.value, resp |-> <<>>, raised |-> "none"]

IsCollection(path_parts) ==
    Len(path_parts) = 1 /\ path_parts[1] = "tasks"

IsResource(path_parts) ==
    Len(path_parts) = 2 /\ path_parts[1] = "tasks"

\* (variant: the dict is rebound to one holding the task alone)
Put_alone(store, task_id, task) == [k \in {task_id} |-> task]

\* tasks[task_id] = task on a dict that keeps insertion order
Put(store, task_id, task) ==
    [k \in DOMAIN store \cup {task_id} |-> IF k = task_id THEN task ELSE store[k]]

PutOrder(store, ord, task_id) ==
    IF task_id \in DOMAIN store THEN ord ELSE Append(ord, task_id)

\* (variant: the del statement is missing)
Del_keep(store, task_id) == store

\* del tasks[task_id]
Del(store, task_id) == [k \in DOMAIN store \ {task_id} |-> store[k]]

DelOrder(ord, task_id) == SelectSeq(ord, LAMBDA k : k # task_id)

\* list(tasks.values())
Values(store, ord) == [i \in 1..Len(ord) |-> store[ord[i]]]

\* (variant: the id is taken from the title of the body)
NewTaskId_fromTitle(data, u) == data.dict["title"]

\* str(uuid.uuid4()), given the token u the generator returns
NewTaskId(data, u) == u

\* (variant: status has no default)
NewTask_noDefaultStatus(new_task_id, data) ==
    [id |-> new_task_id,
     title |-> Get(data, "title", None),
     description |-> Get(data, "description", ""),
     status |-> Get(data, "status", None),
     dueDate |-> Get(data, "dueDate", None)]

\* the dict literal new_task of do_POST
NewTask(new_task_id, data) ==
    [id |-> new_task_id,
     title |-> Get(data, "title", None),
     description |-> Get(data, "description", ""),
     status |-> Get(data, "status", "pending"),
     dueDate |-> Get(data, "dueDate", None)]

\* (variant: a dueDate missing from the body keeps the stored one)
UpdatedTask_keepDueDate(task_id, data) ==
    [id |-> task_id,
     title |-> Get(data, "title", None),
     description |-> Get(data, "description", None),
     status |-> Get(data, "status", None),
     dueDate |-> Get(data, "dueDate", Get(tasks[task_id], "dueDate", None))]

\* (variant: dueDate is set only when the body has it)
UpdatedTask_optionalDueDate(task_id, data) ==
    [key \in {"id", "title", "description", "status"} \cup (DOMAIN data \cap {"dueDate"}) |->
        IF key = "id" THEN task_id ELSE data[key]]

\* the dict literal updated_task of do_PUT
UpdatedTask(task_id, data) ==
    [id |-> task_id,
     title |-> Get(data, "title", None),
     description |-> Get(data, "description", None),
     status |-> Get(data, "status", None),
     dueDate |-> Get(data, "dueDate", None)]

\* (variant: every key of the task is assigned data.get(key))
PatchTask_reset(current_task, data) ==
    [key \in DOMAIN current_task |-> Get(data, key, None)]

\* (variant: the test `key in current_task` is missing)
PatchTask_addKeys(current_task, data) ==
    [key \in DOMAIN current_task \cup DOMAIN data |->
        IF key \in DOMAIN data THEN data[key] ELSE current_task[key]]

\* the loop of do_PATCH over data.items()
PatchTask(current_task, data) ==
    [key \in DOMAIN current_task |->
        IF key \in DOMAIN data THEN data[key] ELSE current_task[key]]

\* (variant: the existence test is missing)
PutMissing_never(task_id) == FALSE

\* `task_id not in tasks` of do_PUT
PutMissing(task_id) == task_id \notin DOMAIN tasks

\* (variant: the empty path is not taken for the collection)
GetResponse_noRoot(store, ord, path_parts) ==
    IF IsCollection(path_parts)
    THEN <<ListResponse(Values(store, ord))>>
    ELSE IF IsResource(path_parts)
         THEN IF path_parts[2] \in DOMAIN store
              THEN <<TaskResponse(200, store[path_parts[2]])>>
              ELSE <<TaskNotFound>>
         ELSE <<NotFound>>

\* what do_GET writes for the path parts, on a given store
GetResponse(store, ord, path_parts) ==
    IF path_parts = <<>> \/ IsCollection(path_parts)
    THEN <<ListResponse(Values(store, ord))>>
    ELSE IF IsResource(path_parts)
         THEN IF path_parts[2] \in DOMAIN store
              THEN <<TaskResponse(200, store[path_parts[2]])>>
              ELSE <<TaskNotFound>>
         ELSE <<NotFound>>

\* the server is between two requests (and the model takes another one)
Accepting == req = NoRequest /\ nreq < MaxRequests

\* one request handled by a fresh handler object: the handler returned or raised
Handled(method, path, body, newTasks, newOrder, newIssued, newResp, newRaised) ==
    /\ nreq' = nreq + 1
    /\ req' = [method |-> method, path |-> path, body |-> body]
    /\ tasks' = newTasks
    /\ order' = newOrder
    /\ issued' = newIssued
    /\ resp' = newResp
    /\ raised' = newRaised

\* the store is left alone
Answered(method, path, body, newResp, newRaised) ==
    Handled(method, path, body, tasks, order, issued, newResp, newRaised)

---------------------------------------------------------------------------
(* The handlers *)

do_GET(path, body) ==
    /\ Accepting
    /\ Answered("GET", path, body, GetResponse(tasks, order, PathParts(path)), "none")

do_POST(path, body) ==
    /\ Accepting
    /\ LET path_parts == PathParts(path) IN
       IF IsCollection(path_parts)
       THEN LET rd == ReadRequestBody(body)
                data == rd.data
            IN  IF rd.raised # "none" \/ data.type = "NoneType"
                THEN Answered("POST", path, body, rd.resp, rd.raised)
                ELSE IF InRaises(data)
                THEN Answered("POST", path, body, <<>>, "TypeError")
                ELSE IF ~In("title", data)
                THEN Answered("POST", path, body, <<TitleRequired>>, "none")
                ELSE \E u \in Uuid4(issued) :
                       LET new_task_id == NewTaskId(data, u) IN
                       IF data.type # "dict"
                       THEN Handled("POST", path, body, tasks, order,
                                    issued \cup {u}, <<>>, "AttributeError")
                       ELSE LET new_task == NewTask(new_task_id, data.dict) IN
                            Handled("POST", path, body,
                                    Put(tasks, new_task_id, new_task),
                                    PutOrder(tasks, order, new_task_id),
                                    issued \cup {u},
                                    <<TaskResponse(201, new_task)>>, "none")
       ELSE Answered("POST", path, body, <<NotFound>>, "none")

do_PUT(path, body) ==
    /\ Accepting
    /\ LET path_parts == PathParts(path) IN
       IF IsResource(path_parts)
       THEN LET task_id == path_parts[2]
                rd == ReadRequestBody(body)
                data == rd.data
            IN  IF PutMissing(task_id)
                THEN Answered("PUT", path, body, <<TaskNotFound>>, "none")
                ELSE IF rd.raised # "none" \/ data.type = "NoneType"
                THEN Answered("PUT", path, body, rd.resp, rd.raised)
                ELSE IF InRaises(data)
                THEN Answered("PUT", path, body, <<>>, "TypeError")
                ELSE IF ~In("title", data) \/ ~In("description", data) \/ ~In("status", data)
                THEN Answered("PUT", path, body, <<AllFieldsRequired>>, "none")
                ELSE IF data.type # "dict"
                THEN Answered("PUT", path, body, <<>>, "AttributeError")
                ELSE LET updated_task == UpdatedTask(task_id, data.dict) IN
                     Handled("PUT", path, body,
                             Put(tasks, task_id, updated_task),
                             PutOrder(tasks, order, task_id),
                             issued, <<TaskResponse(200, updated_task)>>, "none")
       ELSE Answered("PUT", path, body, <<NotFound>>, "none")

do_PATCH(path, body) ==
    /\ Accepting
    /\ LET path_parts == PathParts(path) IN
       IF IsResource(path_parts)
       THEN LET task_id == path_parts[2]
                rd == ReadRequestBody(body)
                data == rd.data
            IN  IF task_id \notin DOMAIN tasks
                THEN Answered("PATCH", path, body, <<TaskNotFound>>, "none")
                ELSE IF rd.raised # "none" \/ data.type = "NoneType"
                THEN Answered("PATCH", path, body, rd.resp, rd.raised)
                ELSE IF data.type # "dict"
                THEN Answered("PATCH", path, body, <<>>, "AttributeError")
                ELSE LET current_task == PatchTask(tasks[task_id], data.dict) IN
                     Handled("PATCH", path, body,
                             Put(tasks, task_id, current_task), order,
                             issued, <<TaskResponse(200, current_task)>>, "none")
       ELSE Answered("PATCH", path, body, <<NotFound>>, "none")

do_DELETE(path, body) ==
    /\ Accepting
    /\ LET path_parts == PathParts(path) IN
       IF IsResource(path_parts)
       THEN LET task_id == path_parts[2] IN
            IF task_id \in DOMAIN tasks
            THEN Handled("DELETE", path, body, Del(tasks, task_id),
                         DelOrder(order, task_id), issued, <<NoContent>>, "none")
            ELSE Answered("DELETE", path, body, <<TaskNotFound>>, "none")
       ELSE Answered("DELETE", path, body, <<NotFound>>, "none")

\* a request with a method TaskAPIHandler defines no do_ method for (OPTIONS
\* stands for them): the base class answers it without reading path or body
do_OPTIONS(path, body) ==
    /\ Accepting
    /\ Answered("OPTIONS", path, body, <<UnsupportedMethod>>, "none")

---------------------------------------------------------------------------
(* The server: httpd.serve_forever() handles one request after another *)

Init ==
    /\ tasks = SeedTasks
    /\ order = SeedOrder
    /\ issued = {}
    /\ req = NoRequest
    /\ resp = <<>>
    /\ raised = "none"
    /\ nreq = 0

\* (variant: an exception that escapes the handler ends serve_forever)
Finish_unlessRaised ==
    /\ req # NoRequest
    /\ raised = "none"
    /\ req' = NoRequest
    /\ resp' = <<>>
    /\ raised' = "none"
    /\ UNCHANGED <<tasks, order, issued, nreq>>

\* the handler object of the request is dropped and the server takes the
\* next request; an exception that escaped the handler was reported by
\* socketserver's handle_error and the connection closed
Finish ==
    /\ req # NoRequest
    /\ req' = NoRequest
    /\ resp' = <<>>
    /\ raised' = "none"
    /\ UNCHANGED <<tasks, order, issued, nreq>>

Next ==
    \/ \E path \in Paths, body \in UnreadBodies : do_GET(path, body)
    \/ \E path \in Paths, body \in Bodies : do_POST(path, body)
    \/ \E path \in Paths, body \in Bodies : do_PUT(path, body)
    \/ \E path \in Paths, body \in Bodies : do_PATCH(path, body)
    \/ \E path \in Paths, body \in UnreadBodies : do_DELETE(path, body)
    \/ \E path \in Paths, body \in UnreadBodies : do_OPTIONS(path, body)
    \/ Finish

Spec == Init /\ [][Next]_vars

\* the same server with request bodies drawn from FairBodies, one body for
\* each way a handler can end
FairNext ==
    \/ \E path \in Paths, body \in UnreadBodies : do_GET(path, body)
    \/ \E path \in Paths, body \in FairBodies : do_POST(path, body)
    \/ \E path \in Paths, body \in FairBodies : do_PUT(path, body)
    \/ \E path \in Paths, body \in FairBodies : do_PATCH(path, body)
    \/ \E path \in Paths, body \in UnreadBodies : do_DELETE(path, body)
    \/ \E path \in Paths, body \in UnreadBodies : do_OPTIONS(path, body)
    \/ Finish

\* serve_forever loops: once a handler has returned or raised, the server
\* goes on to the next request
FairSpec == Init /\ [][FairNext]_vars /\ WF_vars(Finish)

---------------------------------------------------------------------------
(* Properties *)

\* the request the handler of a step has handled
Parts(r) == PathParts(r.path)

OnResource(r) == IsResource(Parts(r))

ResourceId(r) == Parts(r)[2]

\* the dict a request body decodes to, when it decodes to one
DecodesToDict(body) ==
    body.kind = "empty" \/ (body.kind = "json" /\ body.value.type = "dict")

BodyDict(body) == IF body.kind = "json" THEN body.value.dict ELSE EmptyDict

\* the `id` field a Get shows for a task: present or absent
IdField(task) == IF "id" \in DOMAIN task THEN <<task["id"]>> ELSE <<>>

\* one response with the given status was written and nothing was raised
Replied(rs, ex, status_code) ==
    Len(rs) = 1 /\ rs[1].status = status_code /\ ex = "none"

RepliedError(rs, ex, status_code, message) ==
    /\ Replied(rs, ex, status_code)
    /\ rs[1].kind = "error"
    /\ rs[1].error = message

RepliedTask(rs, ex, status_code, task) ==
    /\ Replied(rs, ex, status_code)
    /\ rs[1].kind = "task"
    /\ rs[1].body = <<task>>

StoreUnchanged == tasks' = tasks /\ order' = order

\* C1: in every reachable state every record of the store has an `id`
\* field, the field is non-empty, and no two records have the same `id`.
C1_EveryRecordHasUniqueNonEmptyId ==
    /\ \A k \in DOMAIN tasks : IdField(tasks[k]) # <<>> /\ IdField(tasks[k]) # <<"">>
    /\ \A j, k \in DOMAIN tasks :
          (j # k /\ IdField(tasks[j]) # <<>>) => IdField(tasks[j]) # IdField(tasks[k])

\* C2: the `id` field a Get returns for a record is the same from the
\* record's creation until its deletion, whatever PUT and PATCH requests
\* are applied to it in between (stated for the records a Get shows an
\* `id` for; the seeded records show none until a PUT gives them one).
C2_IdFieldNeverChanges ==
    [][\A k \in DOMAIN tasks \cap DOMAIN tasks' :
          IdField(tasks[k]) # <<>> => IdField(tasks'[k]) = IdField(tasks[k])]_vars

\* C3: GET, PUT, PATCH and DELETE on /tasks/{id} with an id that is not a
\* key of the store answer 404 {"error": "Task not found"} whatever the
\* body is, and leave the store unchanged.
C3_UnknownIdIs404 ==
    [][(/\ req' # NoRequest
        /\ req'.method \in {"GET", "PUT", "PATCH", "DELETE"}
        /\ OnResource(req')
        /\ ResourceId(req') \notin DOMAIN tasks)
       => (/\ RepliedError(resp', raised', 404, "Task not found")
           /\ StoreUnchanged)]_vars

\* a PUT with a body that is not JSON, after a DELETE of the same seeded id,
\* was answered 404
C3_Witness ==
    /\ req # NoRequest
    /\ req.method = "PUT"
    /\ req.body = MalformedBody
    /\ OnResource(req)
    /\ ResourceId(req) \in SeedIds \ DOMAIN tasks
    /\ RepliedError(resp, raised, 404, "Task not found")

\* C4: every request handled by do_GET, do_POST, do_PUT, do_PATCH or
\* do_DELETE gets exactly one response and no exception escapes the handler.
C4_ExactlyOneResponse ==
    req # NoRequest => (Len(resp) = 1 /\ raised = "none")

\* the bodies of the model that are objects with a `title` key
TitledBodies == {b \in ObjectBodies : "title" \in DOMAIN BodyDict(b)}

\* the ids a Create with the given body can return in the current state
CreateIds(body) ==
    {id \in UUIDs \cup {BodyDict(b)["title"] : b \in TitledBodies} :
        ENABLED (/\ do_POST(TasksPath, body)
                 /\ Replied(resp', raised', 201)
                 /\ IdField(resp'[1].body[1]) = <<id>>)}

\* the ids a Create can return do not depend on the body: they are the
\* tokens uuid4 can still return, whatever the title and the other fields
CreateIdsIndependent ==
    Accepting =>
        LET ids == [b \in TitledBodies |-> CreateIds(b)] IN
        \A b1, b2 \in TitledBodies : ids[b1] = ids[b2] /\ ids[b1] = Uuid4(issued)

\* C5: every Create answered 201 returns an id that was not a key of the
\* store when the request arrived and leaves every stored record as it was;
\* the ids a Create can return are the same whatever the title and the
\* other fields of the body are.
C5_CreateReturnsFreshId ==
    /\ []CreateIdsIndependent
    /\ [][(req'.method = "POST" /\ Replied(resp', raised', 201))
          => (/\ resp'[1].kind = "task"
              /\ IdField(resp'[1].body[1]) # <<>>
              /\ resp'[1].body[1]["id"] \notin DOMAIN tasks
              /\ \A k \in DOMAIN tasks : k \in DOMAIN tasks' /\ tasks'[k] = tasks[k])]_vars

\* a second Create was answered 201 while the record of the first is stored
C5_Witness ==
    /\ req.method = "POST"
    /\ Replied(resp, raised, 201)
    /\ Cardinality(issued) = 2
    /\ issued \subseteq DOMAIN tasks

\* C6: POST /tasks with a decodable body that has no `title` key answers
\* 400 {"error": "Title is required"} and leaves the store as it was.
C6_MissingTitleIs400 ==
    [][(/\ req'.method = "POST"
        /\ IsCollection(Parts(req'))
        /\ req'.body.kind \in {"empty", "json"}
        /\ ~(req'.body.value.type = "dict" /\ "title" \in DOMAIN req'.body.value.dict))
       => (/\ RepliedError(resp', raised', 400, "Title is required")
           /\ StoreUnchanged)]_vars

\* C7: after a PUT /tasks/{id} answered 200 whose body has title, description
\* and status and no dueDate, a Get on the id returns exactly these three
\* values, dueDate null and the id of the path.
C7_FullReplaceIsTotal ==
    [][(/\ req'.method = "PUT"
        /\ Replied(resp', raised', 200)
        /\ {"title", "description", "status"} \subseteq DOMAIN BodyDict(req'.body)
        /\ "dueDate" \notin DOMAIN BodyDict(req'.body))
       => LET task_id == ResourceId(req')
              data == BodyDict(req'.body)
          IN  RepliedTask(GetResponse(tasks', order', Parts(req')), "none", 200,
                          [id |-> task_id,
                           title |-> data["title"],
                           description |-> data["description"],
                           status |-> data["status"],
                           dueDate |-> None])]_vars

\* a PUT without dueDate and with an `id` key of its own was answered 200 on
\* a seeded record, as the second request of the run
C7_Witness ==
    /\ req.method = "PUT"
    /\ Replied(resp, raised, 200)
    /\ ResourceId(req) = "task123"
    /\ DOMAIN BodyDict(req.body) = {"title", "description", "status", "id"}
    /\ nreq = 2

\* C8: a PATCH /tasks/{id} answered 200 leaves every field of the record
\* whose key is not in the body with the value it had.
C8_PatchPreservesOtherFields ==
    [][(req'.method = "PATCH" /\ Replied(resp', raised', 200))
       => LET task_id == ResourceId(req') IN
          /\ task_id \in DOMAIN tasks /\ task_id \in DOMAIN tasks'
          /\ \A key \in DOMAIN tasks[task_id] \ DOMAIN BodyDict(req'.body) :
                /\ key \in DOMAIN tasks'[task_id]
                /\ tasks'[task_id][key] = tasks[task_id][key]]_vars

\* PATCH {"status": "done"} was answered 200 on a seeded record: the status
\* is the new one, the other fields are the seeded ones
C8_Witness ==
    /\ req.method = "PATCH"
    /\ Replied(resp, raised, 200)
    /\ BodyDict(req.body) = Obj1("status", "done")
    /\ ResourceId(req) = "task123"
    /\ tasks["task123"] = [SeedTasks["task123"] EXCEPT !["status"] = "done"]

\* C9: a PATCH /tasks/{id} on an existing id whose body has only keys that
\* are not keys of the stored record answers 200 with the record, which is
\* left as it was: no key is added.
C9_PatchIgnoresUnknownKeys ==
    [][(/\ req'.method = "PATCH"
        /\ OnResource(req')
        /\ ResourceId(req') \in DOMAIN tasks
        /\ DecodesToDict(req'.body)
        /\ DOMAIN BodyDict(req'.body) \cap DOMAIN tasks[ResourceId(req')] = {})
       => (/\ RepliedTask(resp', raised', 200, tasks[ResourceId(req')])
           /\ StoreUnchanged)]_vars

\* PATCH {"nonexistentField": "z"} was answered 200 on a stored record
C9_Witness ==
    /\ req.method = "PATCH"
    /\ BodyDict(req.body) = Obj1("nonexistentField", "z")
    /\ OnResource(req)
    /\ ResourceId(req) \in DOMAIN tasks
    /\ Replied(resp, raised, 200)

\* C10: after a POST /tasks answered 201 whose body holds only `title`, a
\* Get on the returned id answers 200 with the record of the 201 response:
\* the title supplied, description "", status "pending", dueDate null.
C10_CreateGetRoundTrip ==
    [][(/\ req'.method = "POST"
        /\ Replied(resp', raised', 201)
        /\ DOMAIN BodyDict(req'.body) = {"title"})
       => LET created == resp'[1].body[1] IN
          /\ resp'[1].kind = "task"
          /\ DOMAIN created = {"id", "title", "description", "status", "dueDate"}
          /\ created["title"] = BodyDict(req'.body)["title"]
          /\ created["description"] = ""
          /\ created["status"] = "pending"
          /\ created["dueDate"] = None
          /\ RepliedTask(GetResponse(tasks', order', PathParts(TaskPath(created["id"]))),
                         "none", 200, created)]_vars

\* a GET on the id of a task created from {"title": "X"} was answered 200
\* with the defaults
C10_Witness ==
    /\ req.method = "GET"
    /\ OnResource(req)
    /\ ResourceId(req) \in issued
    /\ Replied(resp, raised, 200)
    /\ resp[1].body = <<[id |-> ResourceId(req), title |-> "X", description |-> "",
                         status |-> "pending", dueDate |-> None]>>

\* C11: the first DELETE /tasks/{id} on an existing id answers 204 with an
\* empty body and removes the id; an id that is not in the store comes back
\* only as the id a Create returns; and while it is not in the store every
\* Get and every Delete on it answers 404.
C11_DeleteThenNotFound ==
    [][/\ (req'.method = "DELETE" /\ OnResource(req') /\ ResourceId(req') \in DOMAIN tasks)
          => (/\ Replied(resp', raised', 204)
              /\ resp'[1].kind = "empty"
              /\ resp'[1].body = <<>>
              /\ ResourceId(req') \notin DOMAIN tasks')
       /\ \A id \in DOMAIN tasks' \ DOMAIN tasks :
             /\ req'.method = "POST"
             /\ Replied(resp', raised', 201)
             /\ IdField(resp'[1].body[1]) = <<id>>
       /\ (/\ req'.method \in {"GET", "DELETE"}
           /\ OnResource(req')
           /\ ResourceId(req') \notin DOMAIN tasks)
          => (/\ RepliedError(resp', raised', 404, "Task not found")
              /\ ResourceId(req') \notin DOMAIN tasks')]_vars

\* a second DELETE on a seeded id was answered 404
C11_Witness ==
    /\ req.method = "DELETE"
    /\ OnResource(req)
    /\ ResourceId(req) \in SeedIds \ DOMAIN tasks
    /\ RepliedError(resp, raised, 404, "Task not found")
    /\ nreq = 2

\* the five keys of the Task JSON shape
TaskFields == {"id", "title", "description", "status", "dueDate"}

\* C12: in the initial state GET /tasks answers 200 with exactly two
\* records, those seeded under task123 and task456, each with the fields
\* id, title, description, status and dueDate.
C12_InitialList ==
    (req.method = "GET" /\ Parts(req) = <<"tasks">> /\ nreq = 1)
    => /\ Replied(resp, raised, 200)
       /\ resp[1].kind = "list"
       /\ Len(resp[1].body) = 2
       /\ \A i \in 1..Len(resp[1].body) : DOMAIN resp[1].body[i] = TaskFields
       /\ {IdField(resp[1].body[i]) : i \in 1..Len(resp[1].body)}
             = {<<"task123">>, <<"task456">>}

\* C13: a request whose path is none of the shapes [], ["tasks"],
\* ["tasks", id] answers 404 {"error": "Not Found"} whatever its method is
\* and leaves the store unchanged; so does POST on /tasks/{id} and PUT,
\* PATCH or DELETE on /tasks.
C13_UnroutableIs404 ==
    [][(/\ req' # NoRequest
        /\ \/ ~(Parts(req') = <<>> \/ IsCollection(Parts(req')) \/ OnResource(req'))
           \/ (req'.method = "POST" /\ OnResource(req'))
           \/ (req'.method \in {"PUT", "PATCH", "DELETE"} /\ IsCollection(Parts(req'))))
       => (/\ RepliedError(resp', raised', 404, "Not Found")
           /\ StoreUnchanged)]_vars

\* C14: the set of ids of the store changes only by a Create answered 201,
\* which adds exactly one id, or by a Delete answered 204, which removes
\* exactly the id of the path; no other request adds or removes an id.
C14_Lifecycle ==
    [][/\ (req'.method = "POST" /\ Replied(resp', raised', 201))
          => \E id \in DOMAIN tasks' \ DOMAIN tasks :
                DOMAIN tasks' = DOMAIN tasks \cup {id}
       /\ (req'.method = "DELETE" /\ Replied(resp', raised', 204))
          => (/\ OnResource(req')
              /\ ResourceId(req') \in DOMAIN tasks
              /\ DOMAIN tasks' = DOMAIN tasks \ {ResourceId(req')})
       /\ ~(\/ req'.method = "POST" /\ Replied(resp', raised', 201)
            \/ req'.method = "DELETE" /\ Replied(resp', raised', 204))
          => DOMAIN tasks' = DOMAIN tasks]_vars

\* a Create was answered 201 after a Delete was answered 204: one seeded id
\* is gone and one new id is there
C14_Witness ==
    /\ req.method = "POST"
    /\ Replied(resp, raised, 201)
    /\ Cardinality(SeedIds \ DOMAIN tasks) = 1
    /\ Cardinality(DOMAIN tasks \ SeedIds) = 1

\* the request of the current handler ended in an error outcome
Failed ==
    /\ req # NoRequest
    /\ \/ raised # "none"
       \/ (Len(resp) = 1 /\ resp[1].status \in {400, 404})

\* C15: after a request that ends in 400, 404 or an exception escaping the
\* handler, the server gets back to accepting requests, with the store as
\* the failed request left it.
C15_FailureDoesNotStopListener ==
    /\ Failed ~> (req = NoRequest)
    /\ [][Failed => (/\ req' = NoRequest
                     /\ StoreUnchanged
                     /\ (nreq < MaxRequests => Accepting'))]_vars

\* a GET was answered 200 on the seeded store as the second request, after
\* a Create that raised once its id had been generated
C15_Witness ==
    /\ nreq = 2
    /\ issued # {}
    /\ tasks = SeedTasks
    /\ req.method = "GET"
    /\ Replied(resp, raised, 200)

\* C16: a Create on /tasks, or a PUT or PATCH on an existing id, whose
\* non-empty body is not valid JSON answers 400 {"error": "Invalid JSON"}
\* and leaves the store unchanged; nothing is raised past the handler.
C16_InvalidJsonIs400 ==
    [][(/\ req'.body.kind \in {"malformed", "badutf8"}
        /\ \/ (req'.method = "POST" /\ IsCollection(Parts(req')))
           \/ (/\ req'.method \in {"PUT", "PATCH"}
               /\ OnResource(req')
               /\ ResourceId(req') \in DOMAIN tasks))
       => (/\ RepliedError(resp', raised', 400, "Invalid JSON")
           /\ StoreUnchanged)]_vars

\* C17: a PUT /tasks/{id} on an existing id whose decodable body lacks
\* title, description or status answers 400 with the message naming the
\* three fields and leaves the stored record as it was.
C17_PutMissingFieldIs400 ==
    [][(/\ req'.method = "PUT"
        /\ OnResource(req')
        /\ ResourceId(req') \in DOMAIN tasks
        /\ req'.body.kind \in {"empty", "json"}
        /\ ~(/\ DecodesToDict(req'.body)
             /\ {"title", "description", "status"} \subseteq DOMAIN BodyDict(req'.body)))
       => (/\ RepliedError(resp', raised', 400,
                  "All fields (title, description, status) are required for PUT")
           /\ StoreUnchanged)]_vars

\* the 200 response listing every record of the store in the dict's order
ListOfStore(rs, ex) ==
    /\ Replied(rs, ex, 200)
    /\ rs[1].kind = "list"
    /\ rs[1].body = [i \in 1..Len(order) |-> tasks[order[i]]]

\* C18: the empty path shape [] is the collection like ["tasks"]: GET /
\* answers as GET /tasks does, and POST / with a body that has a title
\* creates a task (201, one record more) as POST /tasks does.
C18_RootIsCollection ==
    [][/\ (req'.method = "GET" /\ (Parts(req') = <<>> \/ IsCollection(Parts(req'))))
          => ListOfStore(resp', raised')
       /\ (/\ req'.method = "POST"
           /\ (Parts(req') = <<>> \/ IsCollection(Parts(req')))
           /\ req'.body \in TitledBodies)
          => (/\ Replied(resp', raised', 201)
              /\ Cardinality(DOMAIN tasks') = Cardinality(DOMAIN tasks) + 1)]_vars

\* C18 as the code has it: [] is the collection for GET alone; GET / and
\* GET /tasks both list the store, POST /tasks with a titled body creates a
\* task, and POST / answers 404 {"error": "Not Found"} and creates nothing.
C18_RootIsCollectionForGet ==
    [][/\ (req'.method = "GET" /\ (Parts(req') = <<>> \/ IsCollection(Parts(req'))))
          => ListOfStore(resp', raised')
       /\ (/\ req'.method = "POST"
           /\ IsCollection(Parts(req'))
           /\ req'.body \in TitledBodies)
          => (/\ Replied(resp', raised', 201)
              /\ Cardinality(DOMAIN tasks') = Cardinality(DOMAIN tasks) + 1)
       /\ (req'.method = "POST" /\ Parts(req') = <<>>)
          => (/\ RepliedError(resp', raised', 404, "Not Found")
              /\ StoreUnchanged)]_vars

\* GET / listed three records: the seeded ones and a created one
C18_Witness ==
    /\ req.method = "GET"
    /\ req.path = RootPath
    /\ Replied(resp, raised, 200)
    /\ resp[1].kind = "list"
    /\ Len(resp[1].body) = 3

\* the id a request addresses, if it addresses one
Addressed(r) == IF OnResource(r) THEN {ResourceId(r)} ELSE {}

\* C19: a request changes at most the record stored under the id it
\* addresses: GET changes nothing, a Create leaves every record that was
\* stored as it was, and PUT, PATCH and DELETE on /tasks/{id} leave the
\* records stored under other ids as they were.
C19_OtherRecordsUnchanged ==
    [][/\ req'.method = "GET" => StoreUnchanged
       /\ req'.method = "POST"
          => \A k \in DOMAIN tasks : k \in DOMAIN tasks' /\ tasks'[k] = tasks[k]
       /\ req'.method \in {"PUT", "PATCH", "DELETE"}
          => \A k \in DOMAIN tasks \ Addressed(req') :
                k \in DOMAIN tasks' /\ tasks'[k] = tasks[k]]_vars

\* a PUT was answered 200 on a created record while both seeded records are
\* stored as seeded
C19_Witness ==
    /\ req.method = "PUT"
    /\ Replied(resp, raised, 200)
    /\ ResourceId(req) \in issued
    /\ \A k \in SeedIds : k \in DOMAIN tasks /\ tasks[k] = SeedTasks[k]

\* every stored record has the four fields
HasCoreKeys ==
    \A k \in DOMAIN tasks :
        {"title", "description", "status", "dueDate"} \subseteq DOMAIN tasks[k]

\* C20: in every reachable state every record of the store has the keys
\* title, description, status and dueDate, and a PATCH never changes the set
\* of keys of a record.
C20_RecordsKeepTheirKeys ==
    /\ []HasCoreKeys
    /\ [][(req'.method = "PATCH" /\ OnResource(req') /\ ResourceId(req') \in DOMAIN tasks)
          => (/\ ResourceId(req') \in DOMAIN tasks'
              /\ DOMAIN tasks'[ResourceId(req')] = DOMAIN tasks[ResourceId(req')])]_vars

\* a PATCH was answered 200 on a record that a PUT without dueDate had
\* replaced: it has the four fields and its id
C20_Witness ==
    /\ req.method = "PATCH"
    /\ Replied(resp, raised, 200)
    /\ ResourceId(req) \in SeedIds
    /\ DOMAIN tasks[ResourceId(req)] = TaskFields
    /\ tasks[ResourceId(req)]["dueDate"] = None

====
